---- MODULE Spec2Model ----
(***************************************************************************)
(* A model of the growable array of nomicon_vec: Vec<T> (src/src/vec.rs),  *)
(* the raw cursor RawValIter<T> (src/src/raw_val_iter.rs), the consuming   *)
(* iterator IntoIter<T> (src/src/into_iter.rs), Drain (src/src/drain.rs)   *)
(* and the buffer release of RawVec<T> (src/src/raw_vec.rs).               *)
(*                                                                         *)
(* Memory is modelled slot by slot.  A slot keeps the bits last stored in  *)
(* it (v) and who owns them (st): "live" (an element the buffer owns),     *)
(* "stale" (bits left behind by ptr::read or ptr::copy: the element was    *)
(* moved out) or "uninit" (never written).  Addresses are integers of      *)
(* UsizeBits bits; slot i of a buffer at address p is at p + i * elemSize. *)
(***************************************************************************)
EXTENDS Integers, Sequences, FiniteSets

\* ------------------------------------------------------------------ bounds
MaxLen == 3
MaxVal == 1
UsizeBits == 16

\* ------------------------------------------------------- machine and types
UsizeMax == 2 ^ UsizeBits - 1
IsizeMax == 2 ^ (UsizeBits - 1) - 1

\* mem::size_of::<T>() of the element types explored: a zero-sized type, a
\* small one, one so large that the second doubling overflows, and one of
\* more than half of isize::MAX bytes.
ElemSizes == {0, 4, 2 ^ (UsizeBits - 3), 2 ^ (UsizeBits - 2)}

\* mem::align_of::<T>()
Align(sz) == IF sz = 0 THEN 1 ELSE IF sz % 8 = 0 THEN 8 ELSE sz

\* The values of an element type: a zero-sized type has one value.
Values(sz) == IF sz = 0 THEN {0} ELSE 0 .. MaxVal

\* Addresses the allocator may hand out.
HeapAddrs == {2 ^ (UsizeBits - 3), 2 ^ (UsizeBits - 2)}

\* The answers of the allocator to a call that grows a full buffer (ok or
\* not); a call that does not grow does not ask.
AllocAnswers(full) == IF full THEN BOOLEAN ELSE {TRUE}

NoVal == -1
Uninit == [v |-> NoVal, st |-> "uninit"]
None == << >>
Some(x) == << x >>

VARIABLES
    pc,         \* which object is in use: new, vec, raw_vec, drain, into_iter, cursor,
                \* done, aborted
    elemSize,   \* mem::size_of::<T>()
    needsDrop,  \* mem::needs_drop::<T>()
    ptr,        \* Vec.ptr / RawVec.ptr: address of the buffer
    cap,        \* Vec.cap
    len,        \* Vec.len
    mem,        \* the slots of the buffer ptr points to
    heap,       \* the allocator's view of that buffer
    start,      \* IntoIter.start / RawValIter.start
    end,        \* IntoIter.end / RawValIter.end
    last,       \* the last call: its name, arguments, result and the slots it touched
    hist,       \* history of a run of pushes followed by pops
    iter        \* history of a traversal: what it was built over, what it yielded

vars == << pc, elemSize, needsDrop, ptr, cap, len, mem, heap, start, end, last, hist, iter >>

\* ---------------------------------------------------------------- pointers
\* OwnedPtr::empty(): NonNull::dangling()
empty(sz) == Align(sz)

\* ptr.offset(count)
offset(p, count, sz) == p + count * sz

\* The slot of the buffer at base that an address points to (-1: none).
SlotOf(base, sz, addr) ==
    IF sz # 0 /\ addr >= base /\ (addr - base) % sz = 0 THEN (addr - base) \div sz ELSE -1

InAlloc(m, i) == i >= 0 /\ i < Len(m)
LiveAt(m, i) == InAlloc(m, i) /\ m[i + 1].st = "live"

\* The buffer of object o has been handed back to the allocator.
Freed(o) == o.heap.st = "freed"

\* The memory primitives act on an object o (a Vec or an iterator) with the
\* fields mem (the slots), heap (the allocator's view of them), ret (the result
\* of the call in progress), rd / wr (the slots the call has read / written) and
\* ub (the call has read a slot that holds no live element, or touched a slot
\* outside the allocation or of a released allocation).

\* ptr::write(p.offset(i), x)
PtrWrite(o, i, x) ==
    [o EXCEPT
        !.mem = IF InAlloc(o.mem, i)
                THEN [o.mem EXCEPT ![i + 1] = [v |-> x, st |-> "live"]]
                ELSE o.mem,
        !.wr = o.wr \cup {i},
        !.ub = o.ub \/ ~InAlloc(o.mem, i) \/ Freed(o)]

\* ptr::read(p.offset(i)): the bits stay, the caller owns the element
PtrRead(o, i) ==
    [o EXCEPT
        !.ret = Some(IF InAlloc(o.mem, i) THEN o.mem[i + 1].v ELSE NoVal),
        !.mem = IF InAlloc(o.mem, i)
                THEN [o.mem EXCEPT ![i + 1] = [v |-> o.mem[i + 1].v, st |-> "stale"]]
                ELSE o.mem,
        !.rd = o.rd \cup {i},
        !.ub = o.ub \/ ~LiveAt(o.mem, i) \/ Freed(o)]

\* ptr::copy(p.offset(src), p.offset(dst), n): memmove of n slots; the elements
\* move with their bits, which stay behind in the source slots
PtrCopy(o, src, dst, n) ==
    [o EXCEPT
        !.mem = [k \in 1 .. Len(o.mem) |->
                    IF k - 1 >= dst /\ k - 1 < dst + n /\ InAlloc(o.mem, k - 1 - dst + src)
                    THEN o.mem[k - dst + src]
                    ELSE IF k - 1 >= src /\ k - 1 < src + n /\ o.mem[k].st = "live"
                         THEN [v |-> o.mem[k].v, st |-> "stale"]
                         ELSE o.mem[k]],
        !.rd = o.rd \cup (src .. src + n - 1),
        !.wr = o.wr \cup (dst .. dst + n - 1),
        !.ub = \/ o.ub
               \/ n > 0 /\ Freed(o)
               \/ \E k \in src .. src + n - 1 : ~LiveAt(o.mem, k)
               \/ \E k \in dst .. dst + n - 1 : ~InAlloc(o.mem, k)]

\* ------------------------------------------------------------ the last call
\* What the last call was (op, its arguments i and x, the length and capacity
\* it found) and what it did (the object r it left); before and undo are set
\* for the calls on a Vec alone.
Call(op, r, i, x) ==
    [op |-> op, abort |-> r.abort, ret |-> r.ret, i |-> i, x |-> x,
     rd |-> r.rd, wr |-> r.wr, ub |-> r.ub, len0 |-> len, cap0 |-> cap,
     before |-> << >>, undo |-> FALSE]

Quiet == [abort |-> "none", ret |-> None, rd |-> {}, wr |-> {}, ub |-> FALSE]
Panic(msg) == [Quiet EXCEPT !.abort = msg]

NoCall ==
    [op |-> "none", abort |-> "none", ret |-> None, i |-> -1, x |-> -1,
     rd |-> {}, wr |-> {}, ub |-> FALSE, len0 |-> 0, cap0 |-> 0,
     before |-> << >>, undo |-> FALSE]
NoHist == [phase |-> "off", vals |-> << >>, pops |-> << >>]
NoIter == [src |-> << >>, front |-> << >>, back |-> << >>]
NoHeap == [st |-> "none", cap |-> 0, frees |-> 0, req |-> 0]

\* ---------------------------------------------------------------------- Vec
Self ==
    [ptr |-> ptr, cap |-> cap, len |-> len, mem |-> mem, heap |-> heap,
     abort |-> "none", ret |-> None, rd |-> {}, wr |-> {}, ub |-> FALSE]

\* Deref for Vec: slice::from_raw_parts(self.ptr.as_ptr(), self.len)
deref(self) == [i \in 1 .. self.len |-> IF i <= Len(self.mem) THEN self.mem[i].v ELSE NoVal]

Contents == deref(Self)

\* grow as it would be if the capacity grew by one slot instead of doubling
grow_by_one(self, sz, allocOk, addr) ==
    IF self.cap # 0 /\ ~(self.cap * sz <= IsizeMax \div 2)
    THEN [self EXCEPT !.abort = "capacity overflow"]
    ELSE IF ~allocOk
    THEN [self EXCEPT !.abort = "oom"]
    ELSE [self EXCEPT
             !.ptr = addr,
             !.cap = self.cap + 1,
             !.mem = Append(self.mem, Uninit),
             !.heap = [st |-> "live", cap |-> self.cap + 1, frees |-> self.heap.frees,
                       req |-> 0]]

\* grow as it would be if it tested the new size in bytes against isize::MAX / 2
grow_check_new_bytes(self, sz, allocOk, addr) ==
    LET new_cap == IF self.cap = 0 THEN 1 ELSE self.cap * 2
    IN  IF ~(new_cap * sz <= IsizeMax \div 2)
        THEN [self EXCEPT !.abort = "capacity overflow"]
        ELSE IF ~allocOk
        THEN [self EXCEPT !.abort = "oom"]
        ELSE [self EXCEPT
                 !.ptr = addr,
                 !.cap = new_cap,
                 !.mem = self.mem \o [k \in 1 .. new_cap - Len(self.mem) |-> Uninit],
                 !.heap = [st |-> "live", cap |-> new_cap, frees |-> self.heap.frees,
                           req |-> 0]]

\* Vec::grow; allocOk and addr are the allocator's answer
grow(self, sz, allocOk, addr) ==
    IF self.cap # 0 /\ ~(self.cap * sz <= IsizeMax \div 2)
    THEN [self EXCEPT !.abort = "capacity overflow"]
    ELSE IF ~allocOk
    THEN [self EXCEPT !.abort = "oom"]
    ELSE LET new_cap == IF self.cap = 0 THEN 1 ELSE self.cap * 2
         IN  [self EXCEPT
                 !.ptr = addr,
                 !.cap = new_cap,
                 !.mem = self.mem \o [k \in 1 .. new_cap - Len(self.mem) |-> Uninit],
                 !.heap = [st |-> "live", cap |-> new_cap, frees |-> self.heap.frees,
                           req |-> 0]]

\* push as it would be if it grew only once the length exceeds the capacity
push_grow_late(self, sz, elem, allocOk, addr) ==
    LET g == IF self.len > self.cap THEN grow(self, sz, allocOk, addr) ELSE self
    IN  IF g.abort # "none"
        THEN g
        ELSE [PtrWrite(g, g.len, elem) EXCEPT !.len = g.len + 1]

\* Vec::push
push(self, sz, elem, allocOk, addr) ==
    LET g == IF self.len = self.cap THEN grow(self, sz, allocOk, addr) ELSE self
    IN  IF g.abort # "none"
        THEN g
        ELSE [PtrWrite(g, g.len, elem) EXCEPT !.len = g.len + 1]

\* pop as it would be if it gave back half of a buffer at most half full
pop_shrink(self) ==
    IF self.len = 0
    THEN [self EXCEPT !.ret = None]
    ELSE LET r == PtrRead([self EXCEPT !.len = self.len - 1], self.len - 1)
         IN  IF r.len * 2 <= r.cap THEN [r EXCEPT !.cap = r.cap \div 2] ELSE r

\* pop as it would be if it read the first slot
pop_front(self) ==
    IF self.len = 0
    THEN [self EXCEPT !.ret = None]
    ELSE PtrRead([self EXCEPT !.len = self.len - 1], 0)

\* Vec::pop
pop(self) ==
    IF self.len = 0
    THEN [self EXCEPT !.ret = None]
    ELSE PtrRead([self EXCEPT !.len = self.len - 1], self.len - 1)

\* insert as it would be without the shift of the elements from index on
insert_no_shift(self, sz, index, elem, allocOk, addr) ==
    IF ~(index <= self.len)
    THEN [self EXCEPT !.abort = "index out of bounds"]
    ELSE LET g == IF self.len = self.cap THEN grow(self, sz, allocOk, addr) ELSE self
         IN  IF g.abort # "none"
             THEN g
             ELSE [PtrWrite(g, index, elem) EXCEPT !.len = g.len + 1]

\* insert as it would be if it grew the full buffer before checking the index
insert_grow_first(self, sz, index, elem, allocOk, addr) ==
    LET g == IF self.len = self.cap THEN grow(self, sz, allocOk, addr) ELSE self
        c == IF index < g.len THEN PtrCopy(g, index, index + 1, g.len - index) ELSE g
    IN  IF g.abort # "none"
        THEN g
        ELSE IF ~(index <= g.len)
        THEN [g EXCEPT !.abort = "index out of bounds"]
        ELSE [PtrWrite(c, index, elem) EXCEPT !.len = g.len + 1]

\* Vec::insert
insert(self, sz, index, elem, allocOk, addr) ==
    IF ~(index <= self.len)
    THEN [self EXCEPT !.abort = "index out of bounds"]
    ELSE LET g == IF self.len = self.cap THEN grow(self, sz, allocOk, addr) ELSE self
             c == IF index < g.len THEN PtrCopy(g, index, index + 1, g.len - index) ELSE g
         IN  IF g.abort # "none"
             THEN g
             ELSE [PtrWrite(c, index, elem) EXCEPT !.len = g.len + 1]

\* remove as it would be if the shift moved one element too few
remove_short_shift(self, index) ==
    IF ~(index < self.len)
    THEN [self EXCEPT !.abort = "index out of bounds"]
    ELSE LET s1 == [self EXCEPT !.len = self.len - 1]
             result == PtrRead(s1, index)
         IN  IF s1.len - index >= 1
             THEN PtrCopy(result, index + 1, index, s1.len - index - 1)
             ELSE result

\* remove as it would be if the last element filled the gap (a swap_remove)
remove_swap(self, index) ==
    IF ~(index < self.len)
    THEN [self EXCEPT !.abort = "index out of bounds"]
    ELSE LET s1 == [self EXCEPT !.len = self.len - 1]
             result == PtrRead(s1, index)
         IN  IF index < s1.len
             THEN PtrCopy(result, s1.len, index, 1)
             ELSE result

\* remove as it would be if the shift counted with the length before the call
remove_long_shift(self, index) ==
    IF ~(index < self.len)
    THEN [self EXCEPT !.abort = "index out of bounds"]
    ELSE LET s1 == [self EXCEPT !.len = self.len - 1]
             result == PtrRead(s1, index)
         IN  PtrCopy(result, index + 1, index, self.len - index)

\* Vec::remove
remove(self, index) ==
    IF ~(index < self.len)
    THEN [self EXCEPT !.abort = "index out of bounds"]
    ELSE LET s1 == [self EXCEPT !.len = self.len - 1]
             result == PtrRead(s1, index)
         IN  PtrCopy(result, index + 1, index, s1.len - index)

\* The call that returned r is a remove right after an insert at the same
\* index, or a pop right after a push.
Undoes(r, op, i) ==
    /\ r.abort = "none"
    /\ last.abort = "none"
    /\ \/ op = "remove" /\ last.op = "insert" /\ i = last.i
       \/ op = "pop" /\ last.op = "push"

\* The contents an insert or a push found, kept through the call that undoes it.
Before(r, op, i) ==
    IF r.abort = "none" /\ op \in {"insert", "push"} THEN deref(Self)
    ELSE IF Undoes(r, op, i) THEN last.before
    ELSE << >>

\* A call on the Vec has returned r (or aborted).
Returns(r, op, i, x) ==
    /\ pc' = IF r.abort # "none" THEN "aborted" ELSE "vec"
    /\ ptr' = r.ptr
    /\ cap' = r.cap
    /\ len' = r.len
    /\ mem' = r.mem
    /\ heap' = r.heap
    /\ last' = [Call(op, r, i, x) EXCEPT
                    !.before = Before(r, op, i),
                    !.undo = Undoes(r, op, i)]
    /\ UNCHANGED << elemSize, needsDrop, start, end, iter >>

\* The history of a run of pushes from the empty Vec followed by pops, which
\* ends one pop after the Vec is empty again.
HistPush(r, elem) ==
    IF r.abort # "none" THEN hist
    ELSE IF hist.phase = "push" THEN [hist EXCEPT !.vals = Append(hist.vals, elem)]
    ELSE NoHist

HistPop(r) ==
    IF hist.phase \in {"push", "pop"} /\ Len(hist.pops) <= Len(hist.vals)
    THEN [hist EXCEPT !.phase = "pop", !.pops = Append(hist.pops, r.ret)]
    ELSE NoHist

HistOther(r) == IF r.abort # "none" THEN hist ELSE NoHist

\* Vec::new
VecNew ==
    /\ pc = "new"
    /\ IF elemSize = 0
       THEN /\ pc' = "aborted"
            /\ last' = Call("new", Panic("We're not ready to handle ZSTs"), -1, -1)
       ELSE /\ pc' = "vec"
            /\ last' = Call("new", Quiet, -1, -1)
    /\ UNCHANGED << elemSize, needsDrop, ptr, cap, len, mem, heap, start, end, hist, iter >>

Push ==
    /\ pc = "vec"
    /\ len < MaxLen
    /\ \E elem \in Values(elemSize), allocOk \in AllocAnswers(len = cap), addr \in HeapAddrs :
          LET r == push(Self, elemSize, elem, allocOk, addr)
          IN  Returns(r, "push", -1, elem) /\ hist' = HistPush(r, elem)

Pop ==
    /\ pc = "vec"
    /\ LET r == pop(Self)
       IN  Returns(r, "pop", -1, -1) /\ hist' = HistPop(r)

Insert ==
    /\ pc = "vec"
    /\ len < MaxLen
    /\ \E index \in 0 .. len + 1, elem \in Values(elemSize),
          allocOk \in AllocAnswers(len = cap), addr \in HeapAddrs :
          LET r == insert(Self, elemSize, index, elem, allocOk, addr)
          IN  Returns(r, "insert", index, elem) /\ hist' = HistOther(r)

Remove ==
    /\ pc = "vec"
    /\ \E index \in 0 .. len + 1 :
          LET r == remove(Self, index)
          IN  Returns(r, "remove", index, -1) /\ hist' = HistOther(r)

\* Reading the Vec as a slice (Deref).
Deref ==
    /\ pc = "vec"
    /\ last' = Call("deref", [Quiet EXCEPT !.ret = deref(Self), !.rd = 0 .. len - 1,
                                            !.ub = \E k \in 0 .. len - 1 : ~LiveAt(mem, k)],
                    -1, -1)
    /\ hist' = NoHist
    /\ UNCHANGED << pc, elemSize, needsDrop, ptr, cap, len, mem, heap, start, end, iter >>

\* --------------------------------------------------------------- RawValIter
\* The fields of an iterator (RawValIter, IntoIter) and what a call reports.
It ==
    [start |-> start, end |-> end, mem |-> mem, heap |-> heap,
     abort |-> "none", ret |-> None, rd |-> {}, wr |-> {}, ub |-> FALSE]

\* RawValIter::new(slice), slice being n elements at address p
RawValIter_new(p, n, sz) ==
    [start |-> p,
     end |-> IF sz = 0 THEN (p + n) % (UsizeMax + 1)
             ELSE IF n = 0 THEN p
             ELSE offset(p, n, sz)]

\* ptr::read(addr) on the buffer at base: a zero-sized value occupies no slot
ReadAt(it, base, sz, addr) ==
    IF sz = 0 THEN [it EXCEPT !.ret = Some(0)] ELSE PtrRead(it, SlotOf(base, sz, addr))

\* Iterator for RawValIter: next
RawValIter_next(it, base, sz) ==
    IF it.start = it.end
    THEN [it EXCEPT !.ret = None]
    ELSE [ReadAt(it, base, sz, it.start) EXCEPT
             !.start = IF sz = 0 THEN (it.start + 1) % (UsizeMax + 1)
                       ELSE offset(it.start, 1, sz)]

\* size_hint as it would be if it did not divide by the size of an element
RawValIter_size_hint_bytes(it, sz) ==
    LET n == (it.end - it.start) % (UsizeMax + 1)
    IN  << n, n >>

\* Iterator for RawValIter: size_hint, (len, Some(len)) as << len, len >>
RawValIter_size_hint(it, sz) ==
    LET n == ((it.end - it.start) % (UsizeMax + 1)) \div (IF sz = 0 THEN 1 ELSE sz)
    IN  << n, n >>

\* next_back as it would be if it read at end before moving end back
RawValIter_next_back_read_first(it, base, sz) ==
    IF it.start = it.end
    THEN [it EXCEPT !.ret = None]
    ELSE LET e == IF sz = 0 THEN (it.end - 1) % (UsizeMax + 1) ELSE offset(it.end, -1, sz)
         IN  [ReadAt(it, base, sz, it.end) EXCEPT !.end = e]

\* DoubleEndedIterator for RawValIter: next_back
RawValIter_next_back(it, base, sz) ==
    IF it.start = it.end
    THEN [it EXCEPT !.ret = None]
    ELSE LET e == IF sz = 0 THEN (it.end - 1) % (UsizeMax + 1) ELSE offset(it.end, -1, sz)
         IN  ReadAt([it EXCEPT !.end = e], base, sz, e)

\* for _ in &mut iter {}: next until it returns None
RECURSIVE RawValIter_exhaust(_, _, _)
RawValIter_exhaust(it, base, sz) ==
    LET r == RawValIter_next(it, base, sz)
    IN  IF r.ret = None
        THEN it
        ELSE RawValIter_exhaust(r, base, sz)

\* The history of a traversal.
IterFront(r) == IF r.ret = None THEN iter ELSE [iter EXCEPT !.front = Append(iter.front, r.ret[1])]
IterBack(r) == IF r.ret = None THEN iter ELSE [iter EXCEPT !.back = Append(iter.back, r.ret[1])]

\* A call on an iterator has returned r.
Yields(r, op) ==
    /\ start' = r.start
    /\ end' = r.end
    /\ mem' = r.mem
    /\ last' = Call(op, r, -1, -1)
    /\ hist' = NoHist
    /\ UNCHANGED << elemSize, needsDrop, ptr, cap, len, heap >>

RawValIterNext ==
    /\ pc = "cursor"
    /\ LET r == RawValIter_next(It, ptr, elemSize)
       IN  Yields(r, "next") /\ iter' = IterFront(r) /\ UNCHANGED pc

RawValIterNextBack ==
    /\ pc = "cursor"
    /\ LET r == RawValIter_next_back(It, ptr, elemSize)
       IN  Yields(r, "next_back") /\ iter' = IterBack(r) /\ UNCHANGED pc

RawValIterSizeHint ==
    /\ pc = "cursor"
    /\ Yields([It EXCEPT !.ret = RawValIter_size_hint(It, elemSize)], "size_hint")
    /\ UNCHANGED << pc, iter >>

\* -------------------------------------------------------------------- Drain
\* drain as it would be if start = len were let through as an empty range
drain_allow_end(self, sz, from) ==
    IF ~(from <= self.len)
    THEN [self EXCEPT !.abort = "index out of bounds"]
    ELSE [self EXCEPT !.len = from]

\* drain as it would be if the length were left for the Drain to cut
drain_keep_len(self, sz, from) ==
    IF ~(from < self.len)
    THEN [self EXCEPT !.abort = "index out of bounds"]
    ELSE self

\* Vec::drain(start): the length becomes start at once, and the Drain holds a
\* RawValIter over the slots [start, old length).
drain(self, sz, from) ==
    IF ~(from < self.len)
    THEN [self EXCEPT !.abort = "index out of bounds"]
    ELSE [self EXCEPT !.len = from]

\* the range of a Drain as it would be if it began at the first element
drain_range_whole(self, sz, from) ==
    RawValIter_new(self.ptr, self.len - from, sz)

\* The RawValIter of the Drain: the slots [start, old length).
drain_range(self, sz, from) ==
    RawValIter_new(offset(self.ptr, from, sz), self.len - from, sz)

VecDrain ==
    /\ pc = "vec"
    /\ \E from \in 0 .. len + 1 :
          LET r == drain(Self, elemSize, from)
              it == drain_range(Self, elemSize, from)
          IN  /\ pc' = IF r.abort # "none" THEN "aborted" ELSE "drain"
              /\ len' = r.len
              /\ start' = IF r.abort # "none" THEN start ELSE it.start
              /\ end' = IF r.abort # "none" THEN end ELSE it.end
              /\ iter' = IF r.abort # "none" THEN iter
                         ELSE [src |-> SubSeq(Contents, from + 1, len), front |-> << >>,
                               back |-> << >>]
              /\ last' = Call("drain", r, from, -1)
              /\ hist' = HistOther(r)
              /\ UNCHANGED << elemSize, needsDrop, ptr, cap, mem, heap >>

\* Iterator for Drain: next
DrainNext ==
    /\ pc = "drain"
    /\ LET r == RawValIter_next(It, ptr, elemSize)
       IN  Yields(r, "next") /\ iter' = IterFront(r) /\ UNCHANGED pc

\* DoubleEndedIterator for Drain: next_back
DrainNextBack ==
    /\ pc = "drain"
    /\ LET r == RawValIter_next_back(It, ptr, elemSize)
       IN  Yields(r, "next_back") /\ iter' = IterBack(r) /\ UNCHANGED pc

\* Iterator for Drain: size_hint
DrainSizeHint ==
    /\ pc = "drain"
    /\ Yields([It EXCEPT !.ret = RawValIter_size_hint(It, elemSize)], "size_hint")
    /\ UNCHANGED << pc, iter >>

\* Drop for Drain as it would be if it left the rest of the range alone
Drain_drop_forget(it, base, sz) == [it EXCEPT !.ret = None]

\* Drop for Drain: for _ in &mut self.iter {}
Drain_drop(it, base, sz) == [RawValIter_exhaust(it, base, sz) EXCEPT !.ret = None]

\* The Drain and its history are gone after its drop.
DrainDrop ==
    /\ pc = "drain"
    /\ LET r == Drain_drop(It, ptr, elemSize)
       IN  /\ mem' = r.mem
           /\ last' = Call("drop_drain", r, -1, -1)
    /\ pc' = "vec"
    /\ start' = 0
    /\ end' = 0
    /\ iter' = NoIter
    /\ hist' = NoHist
    /\ UNCHANGED << elemSize, needsDrop, ptr, cap, len, heap >>

\* ----------------------------------------------------------------- IntoIter
\* into_iter as it would be if end were set from the capacity
into_iter_to_cap(self, sz) ==
    [start |-> self.ptr,
     end |-> IF self.cap = 0 THEN self.ptr ELSE offset(self.ptr, self.cap, sz)]

\* Vec::into_iter: the bounds of the IntoIter
into_iter(self, sz) ==
    [start |-> self.ptr,
     end |-> IF self.cap = 0 THEN self.ptr ELSE offset(self.ptr, self.len, sz)]

\* Iterator for IntoIter: next
IntoIter_next(it, base, sz) ==
    IF it.start = it.end
    THEN [it EXCEPT !.ret = None]
    ELSE [ReadAt(it, base, sz, it.start) EXCEPT !.start = offset(it.start, 1, sz)]

\* Iterator for IntoIter: size_hint; the division panics for a zero-sized type
IntoIter_size_hint(it, sz) ==
    IF sz = 0
    THEN [it EXCEPT !.abort = "attempt to divide by zero"]
    ELSE LET n == ((it.end - it.start) % (UsizeMax + 1)) \div sz
         IN  [it EXCEPT !.ret = << n, n >>]

\* DoubleEndedIterator for IntoIter: next_back
IntoIter_next_back(it, base, sz) ==
    IF it.start = it.end
    THEN [it EXCEPT !.ret = None]
    ELSE LET e == offset(it.end, -1, sz)
         IN  ReadAt([it EXCEPT !.end = e], base, sz, e)

\* for _ in &mut *self {}
RECURSIVE IntoIter_exhaust(_, _, _)
IntoIter_exhaust(it, base, sz) ==
    LET r == IntoIter_next(it, base, sz)
    IN  IF r.ret = None
        THEN it
        ELSE IntoIter_exhaust(r, base, sz)

VecIntoIter ==
    /\ pc = "vec"
    /\ LET it == into_iter(Self, elemSize)
       IN  /\ start' = it.start
           /\ end' = it.end
    /\ pc' = "into_iter"
    /\ iter' = [src |-> Contents, front |-> << >>, back |-> << >>]
    /\ last' = Call("into_iter", Quiet, -1, -1)
    /\ hist' = NoHist
    /\ UNCHANGED << elemSize, needsDrop, ptr, cap, len, mem, heap >>

IntoIterNext ==
    /\ pc = "into_iter"
    /\ LET r == IntoIter_next(It, ptr, elemSize)
       IN  Yields(r, "next") /\ iter' = IterFront(r) /\ UNCHANGED pc

IntoIterNextBack ==
    /\ pc = "into_iter"
    /\ LET r == IntoIter_next_back(It, ptr, elemSize)
       IN  Yields(r, "next_back") /\ iter' = IterBack(r) /\ UNCHANGED pc

IntoIterSizeHint ==
    /\ pc = "into_iter"
    /\ LET r == IntoIter_size_hint(It, elemSize)
       IN  /\ Yields(r, "size_hint")
           /\ pc' = IF r.abort # "none" THEN "aborted" ELSE pc
    /\ UNCHANGED iter

\* -------------------------------------------------------------------- drops
\* self.alloc.dealloc_one / dealloc_array(self.ptr, self.cap)
dealloc(h, n) == [st |-> "freed", cap |-> h.cap, frees |-> h.frees + 1, req |-> n]

\* Drop for RawVec as it would be without the test for an empty buffer
RawVec_drop_unguarded(h, n, sz, deallocOk) ==
    IF n = 1 THEN [heap |-> dealloc(h, n), abort |-> "none"]
    ELSE IF deallocOk THEN [heap |-> dealloc(h, n), abort |-> "none"]
    ELSE [heap |-> h, abort |-> "oom"]

\* Drop for RawVec; deallocOk is the allocator's answer to dealloc_array
RawVec_drop(h, n, sz, deallocOk) ==
    IF n = 0 \/ sz = 0 THEN [heap |-> h, abort |-> "none"]
    ELSE IF n = 1 THEN [heap |-> dealloc(h, n), abort |-> "none"]
    ELSE IF deallocOk THEN [heap |-> dealloc(h, n), abort |-> "none"]
    ELSE [heap |-> h, abort |-> "oom"]

\* while let Some(_) = self.pop() {}
RECURSIVE pop_all(_)
pop_all(self) ==
    LET r == pop(self)
    IN  IF r.ret = None
        THEN self
        ELSE pop_all(r)

\* Drop for Vec as it would be if it only released the buffer
Vec_drop_no_cleanup(self, needs_drop, deallocOk) ==
    IF self.cap = 0
    THEN self
    ELSE IF self.cap = 1
    THEN [self EXCEPT !.heap = dealloc(self.heap, self.cap)]
    ELSE IF deallocOk
    THEN [self EXCEPT !.heap = dealloc(self.heap, self.cap)]
    ELSE [self EXCEPT !.abort = "oom"]

\* Drop for Vec
Vec_drop(self, needs_drop, deallocOk) ==
    IF self.cap = 0
    THEN self
    ELSE LET p == IF needs_drop THEN pop_all(self) ELSE self
         IN  IF p.cap = 1
             THEN [p EXCEPT !.heap = dealloc(p.heap, p.cap)]
             ELSE IF deallocOk
             THEN [p EXCEPT !.heap = dealloc(p.heap, p.cap)]
             ELSE [p EXCEPT !.abort = "oom"]

VecDrop ==
    /\ pc = "vec"
    /\ \E deallocOk \in BOOLEAN :
          LET r == Vec_drop(Self, needsDrop, deallocOk)
          IN  /\ pc' = IF r.abort # "none" THEN "aborted" ELSE "done"
              /\ len' = r.len
              /\ mem' = r.mem
              /\ heap' = r.heap
              /\ last' = Call("drop_vec", [r EXCEPT !.ret = None], -1, -1)
    /\ hist' = NoHist
    /\ UNCHANGED << elemSize, needsDrop, ptr, cap, start, end, iter >>

\* Drop for IntoIter as it would be if _buf were dropped before the loop
IntoIter_drop_release_first(it, base, n, sz, needs_drop, deallocOk) ==
    LET d == RawVec_drop(it.heap, n, sz, deallocOk)
        f == [it EXCEPT !.heap = d.heap, !.abort = d.abort]
        r == IF needs_drop THEN IntoIter_exhaust(f, base, sz) ELSE f
    IN  [r EXCEPT !.ret = None]

\* Drop for IntoIter, then the drop of its field _buf
IntoIter_drop(it, base, n, sz, needs_drop, deallocOk) ==
    LET r == IF needs_drop THEN IntoIter_exhaust(it, base, sz) ELSE it
        d == RawVec_drop(r.heap, n, sz, deallocOk)
    IN  [r EXCEPT !.heap = d.heap, !.abort = d.abort, !.ret = None]

IntoIterDrop ==
    /\ pc = "into_iter"
    /\ \E deallocOk \in BOOLEAN :
          LET r == IntoIter_drop(It, ptr, cap, elemSize, needsDrop, deallocOk)
          IN  /\ pc' = IF r.abort # "none" THEN "aborted" ELSE "done"
              /\ start' = r.start
              /\ end' = r.end
              /\ mem' = r.mem
              /\ heap' = r.heap
              /\ last' = Call("drop_into_iter", r, -1, -1)
    /\ hist' = NoHist
    /\ UNCHANGED << elemSize, needsDrop, ptr, cap, len, iter >>

\* ------------------------------------------------------------------- RawVec
\* RawVec::default: the capacity of a zero-sized type is !0
RawVec_default(sz) == [ptr |-> empty(sz), cap |-> IF sz = 0 THEN UsizeMax ELSE 0]

\* RawVec::grow: the test for a zero-sized type, then the steps of Vec::grow
RawVec_grow(self, sz, allocOk, addr) ==
    IF ~(sz # 0)
    THEN [self EXCEPT !.abort = "capacity overflow"]
    ELSE grow(self, sz, allocOk, addr)

RawVecDefault ==
    /\ pc = "new"
    /\ pc' = "raw_vec"
    /\ ptr' = RawVec_default(elemSize).ptr
    /\ cap' = RawVec_default(elemSize).cap
    /\ last' = Call("default", Quiet, -1, -1)
    /\ hist' = NoHist
    /\ UNCHANGED << elemSize, needsDrop, len, mem, heap, start, end, iter >>

RawVecGrow ==
    /\ pc = "raw_vec"
    /\ elemSize = 0 \/ cap <= MaxLen
    /\ \E allocOk \in BOOLEAN, addr \in HeapAddrs :
          LET r == RawVec_grow(Self, elemSize, allocOk, addr)
          IN  /\ pc' = IF r.abort # "none" THEN "aborted" ELSE "raw_vec"
              /\ ptr' = r.ptr
              /\ cap' = r.cap
              /\ mem' = r.mem
              /\ heap' = r.heap
              /\ last' = Call("grow", r, -1, -1)
    /\ hist' = NoHist
    /\ UNCHANGED << elemSize, needsDrop, len, start, end, iter >>

RawVecDrop ==
    /\ pc = "raw_vec"
    /\ \E deallocOk \in BOOLEAN :
          LET d == RawVec_drop(heap, cap, elemSize, deallocOk)
          IN  /\ pc' = IF d.abort # "none" THEN "aborted" ELSE "done"
              /\ heap' = d.heap
              /\ last' = Call("drop_raw_vec", [Quiet EXCEPT !.abort = d.abort], -1, -1)
    /\ hist' = NoHist
    /\ UNCHANGED << elemSize, needsDrop, ptr, cap, len, mem, start, end, iter >>

\* ----------------------------------------------------------- specifications
Init ==
    /\ pc = "new"
    /\ elemSize \in ElemSizes
    /\ needsDrop \in BOOLEAN
    /\ ptr = empty(elemSize)
    /\ cap = 0
    /\ len = 0
    /\ mem = << >>
    /\ heap = NoHeap
    /\ start = 0
    /\ end = 0
    /\ last = NoCall
    /\ hist = [phase |-> "push", vals |-> << >>, pops |-> << >>]
    /\ iter = NoIter

Next ==
    \/ VecNew \/ Push \/ Pop \/ Insert \/ Remove \/ Deref
    \/ VecDrain \/ DrainNext \/ DrainNextBack \/ DrainSizeHint \/ DrainDrop
    \/ VecIntoIter \/ IntoIterNext \/ IntoIterNextBack \/ IntoIterSizeHint \/ IntoIterDrop
    \/ VecDrop
    \/ RawVecDefault \/ RawVecGrow \/ RawVecDrop

Spec == Init /\ [][Next]_vars

\* A RawValIter built over a slice of n elements (of any element type); a slice
\* is at most isize::MAX bytes long and lies within the address space.
Slices(sz) ==
    UNION {[1 .. n -> Values(sz)] : n \in 0 .. MaxLen}

InitCursor ==
    /\ pc = "cursor"
    /\ elemSize \in ElemSizes
    /\ needsDrop = FALSE
    /\ \E s \in Slices(elemSize), a \in HeapAddrs :
          /\ Len(s) * elemSize <= IsizeMax
          /\ a + Len(s) * elemSize <= UsizeMax
          /\ iter = [src |-> s, front |-> << >>, back |-> << >>]
          /\ ptr = IF Len(s) = 0 \/ elemSize = 0 THEN empty(elemSize) ELSE a
          /\ mem = IF elemSize = 0 THEN << >>
                   ELSE [k \in 1 .. Len(s) |-> [v |-> s[k], st |-> "live"]]
          /\ cap = Len(s)
          /\ len = Len(s)
          /\ start = RawValIter_new(ptr, Len(s), elemSize).start
          /\ end = RawValIter_new(ptr, Len(s), elemSize).end
    /\ heap = NoHeap
    /\ last = NoCall
    /\ hist = NoHist

NextCursor == RawValIterNext \/ RawValIterNextBack \/ RawValIterSizeHint

SpecCursor == InitCursor /\ [][NextCursor]_vars

\* ------------------------------------------------------------------- claims
\* The smallest power of two >= n (n >= 1).
NextPowerOfTwo(n) ==
    LET P == {2 ^ k : k \in 0 .. UsizeBits}
    IN  CHOOSE q \in P : q >= n /\ \A r \in P : r >= n => q <= r

InsertAt(s, i, x) == SubSeq(s, 1, i) \o << x >> \o SubSeq(s, i + 1, Len(s))
RemoveAt(s, i) == SubSeq(s, 1, i) \o SubSeq(s, i + 2, Len(s))
Reverse(s) == [j \in 1 .. Len(s) |-> s[Len(s) + 1 - j]]
IsPrefix(s, t) == Len(s) <= Len(t) /\ \A j \in 1 .. Len(s) : s[j] = t[j]
Yielded == Len(iter.front) + Len(iter.back)

C2_PopLifo ==
    hist.phase = "pop" =>
        /\ \A j \in 1 .. Len(hist.pops) :
              hist.pops[j] = IF j <= Len(hist.vals)
                             THEN Some(hist.vals[Len(hist.vals) + 1 - j])
                             ELSE None
        /\ len = IF Len(hist.pops) <= Len(hist.vals)
                 THEN Len(hist.vals) - Len(hist.pops)
                 ELSE 0

C2_Witness ==
    /\ hist.phase = "pop"
    /\ Len(hist.vals) = 3
    /\ hist.vals[1] # hist.vals[3]
    /\ Len(hist.pops) = 4

\* C3: insert(i, x) with i <= len leaves the contents s[0..i), x, s[i..len) and
\* the length len + 1, also when the buffer was full and grew first.
C3_InsertShifts ==
    [][last'.op = "insert" /\ last'.abort = "none" =>
          /\ Contents' = InsertAt(Contents, last'.i, last'.x)
          /\ len' = len + 1]_vars

C3_Witness ==
    /\ last.op = "insert"
    /\ last.abort = "none"
    /\ last.len0 = 2
    /\ last.cap0 = 2
    /\ last.i = 1
    /\ Contents[1] # Contents[3]

\* C4: remove(i) with i < len returns s[i] and leaves the contents s[0..i),
\* s[i+1..len), the length len - 1 and the capacity as it was.
C4_RemoveShifts ==
    [][last'.op = "remove" /\ last'.abort = "none" =>
          /\ last'.ret = Some(Contents[last'.i + 1])
          /\ Contents' = RemoveAt(Contents, last'.i)
          /\ len' = len - 1
          /\ cap' = cap]_vars

C4_Witness ==
    /\ last.op = "remove"
    /\ last.abort = "none"
    /\ last.len0 = 3
    /\ last.i = 0
    /\ Contents[1] # Contents[2]

\* C5: insert aborts with "index out of bounds" exactly when index > len, remove
\* exactly when index >= len, and such an abort leaves length, capacity, buffer
\* and elements as they were (a rejected insert on a full Vec does not grow).
C5_OutOfBounds ==
    /\ [](last.op = "insert" =>
            (last.abort = "index out of bounds" <=> last.i > last.len0))
    /\ [](last.op = "remove" =>
            (last.abort = "index out of bounds" <=> last.i >= last.len0))
    /\ [][last'.op \in {"insert", "remove"} /\ last'.abort = "index out of bounds" =>
            UNCHANGED << ptr, cap, len, mem, heap >>]_vars

C5_Witness ==
    /\ last.op = "insert"
    /\ last.abort = "index out of bounds"
    /\ last.len0 = 2
    /\ last.cap0 = 2
    /\ cap = 2

\* C6: len <= cap in every state reached by push, pop, insert, remove and drain
\* from the empty Vec.
C6_LenLeCap == len <= cap

C6_Witness == pc = "vec" /\ last.op = "insert" /\ len = cap /\ len = 2

\* The Vec exists and is not lent to a Drain: it is new or between two calls,
\* or one of its calls has just aborted.
VecInUse ==
    \/ pc \in {"new", "vec"}
    \/ pc = "aborted" /\ last.op \in {"new", "push", "insert", "remove", "drain"}

C8_CursorInterleaving ==
    /\ [](/\ Yielded <= Len(iter.src)
          /\ IsPrefix(iter.front, iter.src)
          /\ IsPrefix(iter.back, Reverse(iter.src))
          /\ last.op \in {"next", "next_back"} /\ last.ret = None => Yielded = Len(iter.src))
    /\ [][last'.op \in {"next", "next_back"} =>
            IF Yielded < Len(iter.src)
            THEN last'.ret # None /\ Yielded' = Yielded + 1
            ELSE last'.ret = None /\ UNCHANGED << start, end, mem, iter >>]_vars

C8_Witness ==
    /\ Len(iter.src) = 3
    /\ Len(iter.front) = 2
    /\ Len(iter.back) = 1
    /\ iter.src[1] # iter.src[2]
    /\ last.op = "next_back"
    /\ last.ret = None

\* C9: at every point of a traversal size_hint is (k, Some(k)) with k the number
\* of elements the RawValIter was built over less those yielded so far, for
\* zero-sized elements too, and k is 0 exactly when the cursor is exhausted.
C9_SizeHintExact ==
    LET k == Len(iter.src) - Yielded
    IN  /\ RawValIter_size_hint(It, elemSize) = << k, k >>
        /\ (k = 0) <=> (start = end)
        /\ last.op = "size_hint" => last.ret = << k, k >>

C9_Witness ==
    /\ last.op = "size_hint"
    /\ elemSize = 0
    /\ Len(iter.front) = 1
    /\ Len(iter.back) = 1
    /\ last.ret = << 1, 1 >>

\* C10: the IntoIter of a Vec with contents s of length n yields s[0] .. s[n-1]
\* by next and s[n-1] .. s[0] by next_back, then None; it reads no slot in
\* [len, cap), and yields nothing for a Vec that never allocated.
C10_IntoIterYields ==
    /\ [](pc = "into_iter" =>
            /\ Len(iter.src) = len
            /\ Yielded <= len
            /\ IsPrefix(iter.front, iter.src)
            /\ IsPrefix(iter.back, Reverse(iter.src))
            /\ last.op \in {"next", "next_back"} /\ last.ret = None => Yielded = len
            /\ last.rd \subseteq 0 .. len - 1
            /\ cap = 0 => Yielded = 0)
    /\ [][pc = "into_iter" /\ last'.op \in {"next", "next_back"} =>
            IF Yielded < len
            THEN last'.ret # None /\ Yielded' = Yielded + 1
            ELSE last'.ret = None]_vars

C10_Witness ==
    /\ pc = "into_iter"
    /\ cap = 4
    /\ len = 2
    /\ iter.src[1] # iter.src[2]
    /\ Len(iter.front) = 2
    /\ last.op = "next"
    /\ last.ret = None

\* C11: the allocation of a Vec is released exactly once, by Drop for Vec or,
\* after into_iter, by the drop of the IntoIter alone (that of a bare RawVec by
\* its own drop); never twice, never while the capacity is 0, never before a
\* later use, never left behind by a finished drop, and the release asks for
\* exactly the capacity.
C11_ReleasedOnce ==
    /\ heap.frees <= 1
    /\ (heap.st = "none") <=> (cap = 0 \/ elemSize = 0)
    /\ heap.st = "live" => heap.cap = cap /\ heap.frees = 0
    /\ heap.st = "freed" =>
          /\ pc = "done"
          /\ last.op \in {"drop_vec", "drop_into_iter", "drop_raw_vec"}
          /\ heap.frees = 1
          /\ heap.req = cap
          /\ heap.cap = cap
    /\ pc = "done" => heap.st # "live"
    /\ pc = "into_iter" => heap.frees = 0
    /\ ~last.ub

C11_Witness ==
    /\ pc = "done"
    /\ last.op = "drop_into_iter"
    /\ heap.st = "freed"
    /\ heap.req = 4
    /\ Len(iter.front) = 1

\* The slots of the elements an iterator over iter.src has not yielded yet.
Unyielded == Len(iter.front) .. Len(iter.src) - 1 - Len(iter.back)
LiveSlots(m) == {i \in 0 .. Len(m) - 1 : m[i + 1].st = "live"}

\* C12: the drop of an IntoIter, after any number of next and next_back calls,
\* moves out (and so cleans up) exactly the elements not yielded yet, each once,
\* touches no slot whose element was yielded, and does so before the buffer is
\* released; an element type without cleanup code is not visited at all.
C12_IntoIterDropCleans ==
    [][last'.op = "drop_into_iter" =>
          /\ LiveSlots(mem) = Unyielded
          /\ last'.rd = IF needsDrop THEN Unyielded ELSE {}
          /\ last'.wr = {}
          /\ ~last'.ub
          /\ needsDrop => LiveSlots(mem') = {}
          /\ \A i \in (0 .. Len(mem) - 1) \ Unyielded : mem'[i + 1] = mem[i + 1]
          /\ heap.st = "live" \/ cap = 0]_vars

C12_Witness ==
    /\ pc = "done"
    /\ last.op = "drop_into_iter"
    /\ needsDrop
    /\ Len(iter.src) = 3
    /\ Len(iter.front) = 1
    /\ Len(iter.back) = 1
    /\ last.rd = {1}
    /\ heap.st = "freed"

\* C13: Drop for Vec with an element type that has cleanup code pops, and so
\* cleans up, every element of the Vec exactly once before the buffer is
\* released, and touches no slot whose element pop or remove handed out.
C13_VecDropCleans ==
    [][last'.op = "drop_vec" =>
          /\ LiveSlots(mem) = 0 .. len - 1
          /\ last'.rd = IF needsDrop THEN 0 .. len - 1 ELSE {}
          /\ last'.wr = {}
          /\ ~last'.ub
          /\ needsDrop => LiveSlots(mem') = {} /\ len' = 0
          /\ \A i \in len .. Len(mem) - 1 : mem'[i + 1] = mem[i + 1]
          /\ heap.st = "live" \/ cap = 0]_vars

C13_Witness ==
    /\ pc = "done"
    /\ last.op = "drop_vec"
    /\ needsDrop
    /\ last.len0 = 2
    /\ last.cap0 = 4
    /\ last.rd = {0, 1}
    /\ mem[3].st = "stale"
    /\ heap.st = "freed"

\* C14: drain(start) sets the length to start before it returns; the length
\* stays start while the Drain is consumed from either end and after the Drain
\* is dropped, and the capacity never changes on the way.
C14_DrainTruncates ==
    [][/\ last'.op = "drain" /\ last'.abort = "none" =>
             /\ len' = last'.i
             /\ cap' = cap
             /\ start' = offset(ptr, len', elemSize)
       /\ pc = "drain" =>
             /\ len' = len
             /\ cap' = cap
             /\ start = offset(ptr, len + Len(iter.front), elemSize)]_vars

C14_Witness ==
    /\ pc = "vec"
    /\ last.op = "drop_drain"
    /\ len = 1
    /\ cap = 4
    /\ last.rd = {2}
    /\ mem[2].st = "stale"

\* C15: drain(start) on contents s of length n yields s[start] .. s[n-1] by
\* next and s[n-1] .. s[start] by next_back, n - start elements in all and then
\* None, reading no other slot; from the call on, and after the Drain is
\* dropped, the contents of the Vec are s[0..start).
C15_DrainYields ==
    /\ [](pc = "drain" =>
            /\ Yielded <= Len(iter.src)
            /\ IsPrefix(iter.front, iter.src)
            /\ IsPrefix(iter.back, Reverse(iter.src))
            /\ last.op \in {"next", "next_back"} /\ last.ret = None =>
                  Yielded = Len(iter.src)
            /\ last.rd \subseteq len .. len + Len(iter.src) - 1)
    /\ [][/\ last'.op = "drain" /\ last'.abort = "none" =>
                /\ Contents' = SubSeq(Contents, 1, last'.i)
                /\ iter'.src = SubSeq(Contents, last'.i + 1, len)
                /\ Yielded' = 0
          /\ pc = "drain" => Contents' = Contents
          /\ pc = "drain" /\ last'.op \in {"next", "next_back"} =>
                IF Yielded < Len(iter.src)
                THEN last'.ret # None /\ Yielded' = Yielded + 1
                ELSE last'.ret = None]_vars

C15_Witness ==
    /\ pc = "drain"
    /\ len = 1
    /\ Len(iter.src) = 2
    /\ iter.src[1] # iter.src[2]
    /\ iter.src[1] # Contents[1]
    /\ iter.front = << iter.src[1] >>
    /\ iter.back = << iter.src[2] >>
    /\ last.op = "next"
    /\ last.ret = None

\* The slots of the elements a Drain has not yielded yet.
Undrained == len + Len(iter.front) .. len + Len(iter.src) - 1 - Len(iter.back)

\* C16: while a Drain lives, the elements of its range it has yielded are out of
\* the buffer and the others still in it; its drop moves out exactly those
\* others, each once, whatever the element type, so that every element of the
\* range is yielded or cleaned up exactly once and none stays behind; the
\* elements left are those of the Vec, and a later Drop for Vec visits only them.
C16_DrainDropCleans ==
    /\ [](/\ pc = "drain" => LiveSlots(mem) = (0 .. len - 1) \cup Undrained
          /\ pc = "vec" => LiveSlots(mem) = 0 .. len - 1)
    /\ [][/\ last'.op = "drop_drain" =>
                /\ last'.rd = Undrained
                /\ last'.wr = {}
                /\ ~last'.ub
                /\ LiveSlots(mem') = 0 .. len - 1
                /\ \A i \in (0 .. Len(mem) - 1) \ Undrained : mem'[i + 1] = mem[i + 1]
                /\ len' = len
                /\ heap' = heap
          /\ last'.op = "drop_vec" => last'.rd \subseteq 0 .. len - 1]_vars

C16_Witness ==
    /\ pc = "vec"
    /\ last.op = "drop_drain"
    /\ len = 1
    /\ cap = 4
    /\ last.rd = {1}
    /\ mem[3].st = "stale"
    /\ mem[1].st = "live"

\* C17: drain(start) aborts with "index out of bounds" exactly when
\* start >= len, so also for start = len and for every start on an empty Vec,
\* and an aborted drain leaves the length, the capacity and the buffer as they
\* were and creates no Drain.
C17_DrainOutOfBounds ==
    [][last'.op = "drain" =>
          /\ (last'.abort = "index out of bounds") <=> (last'.i >= len)
          /\ last'.abort \in {"none", "index out of bounds"}
          /\ last'.abort # "none" =>
                /\ pc' = "aborted"
                /\ len' = len
                /\ Contents' = Contents
                /\ UNCHANGED << ptr, cap, mem, heap, start, end, iter >>
                /\ last'.rd = {} /\ last'.wr = {}]_vars

C17_Witness ==
    /\ pc = "aborted"
    /\ last.op = "drain"
    /\ last.abort = "index out of bounds"
    /\ last.i = last.len0
    /\ len = 2
    /\ Contents[1] # Contents[2]

\* C18: for a zero-sized element type Vec::new succeeds, as does every
\* in-bounds push, pop, insert and remove; the allocator is never called, at
\* the drop neither, and the capacity is the sentinel usize::MAX in every state.
C18_ZstNeverAllocates ==
    elemSize = 0 /\ last.op \in {"new", "push", "pop", "insert", "remove", "drop_vec"} =>
        /\ last.abort \in {"none", "index out of bounds"}
        /\ cap = UsizeMax
        /\ heap = NoHeap

\* The step is a call of grow: RawVec::grow itself, or Vec::grow from a push or
\* an in-bounds insert on a full Vec.
GrowCalled ==
    \/ last'.op = "grow"
    \/ last'.op = "push" /\ len = cap
    \/ last'.op = "insert" /\ last'.i <= len /\ len = cap

\* The size in bytes of the buffer grow is about to ask for.
NewBytes == (IF cap = 0 THEN 1 ELSE cap * 2) * elemSize

\* grow went on to the allocator: it is out of memory, or the buffer is the new one.
GrowProceeds ==
    /\ last'.abort \in {"none", "oom"}
    /\ last'.abort = "oom" => UNCHANGED << ptr, cap, heap >>
    /\ last'.abort = "none" =>
          /\ cap' = IF cap = 0 THEN 1 ELSE cap * 2
          /\ ptr' \in HeapAddrs
          /\ heap'.st = "live" /\ heap'.cap = cap'

GrowOverflows ==
    /\ last'.abort = "capacity overflow"
    /\ UNCHANGED << ptr, cap, len, mem, heap >>

SameResult(a, b) ==
    /\ a.abort = b.abort
    /\ a.ret = b.ret
    /\ a.start = b.start
    /\ a.end = b.end
    /\ a.mem = b.mem

\* C20: an IntoIter is a RawValIter over the elements of the Vec: it starts
\* with the bounds RawValIter::new gives for them and, from every state a
\* RawValIter reaches by any interleaving of calls, next, next_back and
\* size_hint of IntoIter return what those of RawValIter return and leave the
\* same cursor, for every element type, the zero-sized one included.
C20_IntoIterAsRawValIter ==
    /\ last.op = "none" =>
          /\ into_iter(Self, elemSize).start = start
          /\ into_iter(Self, elemSize).end = end
    /\ SameResult(IntoIter_next(It, ptr, elemSize), RawValIter_next(It, ptr, elemSize))
    /\ SameResult(IntoIter_next_back(It, ptr, elemSize),
                  RawValIter_next_back(It, ptr, elemSize))
    /\ SameResult(IntoIter_size_hint(It, elemSize),
                  [It EXCEPT !.ret = RawValIter_size_hint(It, elemSize)])

\* C21: over the life of a Vec or RawVec the capacity never decreases: every
\* step leaves it or is a grow that succeeded, from 0 to 1 or from c to 2c;
\* pop, remove, drain, the calls on a Drain or IntoIter and the drops leave it.
C21_CapMonotone ==
    [][pc # "new" =>
          /\ cap' >= cap
          /\ cap' # cap =>
                /\ GrowCalled
                /\ last'.abort = "none"
                /\ cap' = IF cap = 0 THEN 1 ELSE cap * 2
          /\ last'.op \notin {"push", "insert", "grow"} => cap' = cap]_vars

C21_Witness ==
    /\ pc = "vec"
    /\ last.op = "remove"
    /\ last.abort = "none"
    /\ last.cap0 = 4
    /\ cap = 4
    /\ len = 0

\* C22: remove(i) right after a successful insert(i, x), 0 <= i <= len, returns
\* x and leaves the contents and the length the insert found (the capacity is
\* the one the insert left); pop right after a successful push(x) returns x and
\* leaves the contents and the length the push found.
C22_InsertRemoveInverse ==
    [][/\ last.op = "insert" /\ last.abort = "none"
          /\ last'.op = "remove" /\ last'.i = last.i =>
             /\ last'.abort = "none"
             /\ last'.ret = Some(last.x)
             /\ Contents' = last.before
             /\ len' = last.len0
             /\ cap' = cap
       /\ last.op = "push" /\ last.abort = "none" /\ last'.op = "pop" =>
             /\ last'.abort = "none"
             /\ last'.ret = Some(last.x)
             /\ Contents' = last.before
             /\ len' = last.len0
             /\ cap' = cap
       /\ last'.op \in {"insert", "push"} /\ last'.abort = "none" =>
             last'.before = Contents]_vars

C22_Witness ==
    /\ pc = "vec"
    /\ last.op = "remove"
    /\ last.undo
    /\ last.i = 1
    /\ last.before = Contents
    /\ len = 2
    /\ cap = 4
    /\ Contents[1] # Contents[2]
    /\ last.ret = Some(Contents[1])
====
